---------------------------- MODULE Spec2Model ----------------------------
(***************************************************************************)
(* Model of the policy question-answering demo: the vector-store lifecycle *)
(* of vectordb.py (load-or-build, persistence, the lazily initialised      *)
(* global VECTORSTORE) and the two-stage answer pipeline of agents.py      *)
(* (policy_lookup, run_retrieval_agent, run_summary_agent,                 *)
(* answer_question, _clean_query).                                         *)
(*                                                                         *)
(* A Python str is a sequence of one-character strings.  The third-party   *)
(* libraries (pypdf, the text splitter, FAISS, the language model and the  *)
(* agent loop) are external: where their result is not fixed by the code   *)
(* of this repository it is a nondeterministic choice.                     *)
(***************************************************************************)
EXTENDS Integers, Sequences, FiniteSets, TLC

(***************************************************************************)
(* Bounds of the model.                                                    *)
(***************************************************************************)
MaxLen == 3          \* longest input string drawn for _clean_query
MaxStores == 3       \* store objects created (built or loaded) in one behaviour
MaxToolCalls == 2    \* tool calls the retrieval agent's model may decide on

(***************************************************************************)
(* Strings.                                                                *)
(***************************************************************************)
\* Characters str.strip() and the regex class \s treat as whitespace.
IsSpace(c) == c \in {" ", "\t", "\n"}

\* The regex class \w: letters, digits and the underscore, that is every
\* character of the model's alphabet but whitespace and these.
IsWord(c) == ~IsSpace(c) /\ c \notin {"!", "?", "-", "[", "]", "."}

\* str.lower() on one character.
LowerChar(c) ==
    CASE c = "A" -> "a" [] c = "B" -> "b" [] c = "P" -> "p"
      [] c = "D" -> "d" [] c = "F" -> "f" [] OTHER -> c

Lower(s) == [i \in 1..Len(s) |-> LowerChar(s[i])]

RECURSIVE LStrip(_)
LStrip(s) == IF s # <<>> /\ IsSpace(Head(s)) THEN LStrip(Tail(s)) ELSE s

RECURSIVE RStrip(_)
RStrip(s) ==
    IF s # <<>> /\ IsSpace(s[Len(s)]) THEN RStrip(SubSeq(s, 1, Len(s) - 1)) ELSE s

\* str.strip()
Strip(s) == RStrip(LStrip(s))

\* sep.join(parts)
RECURSIVE Join(_, _)
Join(sep, parts) ==
    IF parts = <<>> THEN <<>>
    ELSE IF Len(parts) = 1 THEN parts[1]
    ELSE parts[1] \o sep \o Join(sep, Tail(parts))

\* re.sub(r"[^\w\s]", " ", s)
SubNonWord(s) ==
    [i \in 1..Len(s) |-> IF IsWord(s[i]) \/ IsSpace(s[i]) THEN s[i] ELSE " "]

\* re.sub(r"\s+", " ", s)
RECURSIVE CollapseSpaces(_)
CollapseSpaces(s) ==
    IF s = <<>> THEN <<>>
    ELSE IF IsSpace(Head(s))
         THEN <<" ">> \o CollapseSpaces(LStrip(s))
         ELSE <<Head(s)>> \o CollapseSpaces(Tail(s))

\* agents._clean_query
CleanQuery(text) == Strip(CollapseSpaces(SubNonWord(Lower(text))))

(***************************************************************************)
(* Literals of the source.                                                 *)
(***************************************************************************)
\* agents.py line 37: the sentinel for "nothing found".
NO_MATCH == <<"N", "O", "_", "M", "A", "T", "C", "H">>

\* agents.py line 128: the fixed answer when no passage was found.
Apology ==
    <<"I", " ", "c", "o", "u", "l", "d", " ", "n", "o", "t", " ", "f",
      "i", "n", "d", " ", "a", "n", "y", " ", "p", "o", "l", "i", "c", "y",
      " ", "t", "e", "x", "t", " ", "t", "h", "a", "t", " ", "a", "n", "s",
      "w", "e", "r", "s", " ", "t", "h", "a", "t", " ", "q", "u", "e", "s",
      "t", "i", "o", "n", ".">>

\* vectordb.py line 22: the suffix of DEFAULT_PDF_PATH.
DefaultSuffix == <<".", "p", "d", "f">>

\* vectordb.py line 151: the default k of query_vector_db.
DefaultK == 5

\* agents.py line 35: the k policy_lookup passes.
LookupK == 3

(***************************************************************************)
(* vectordb.py: building a store from the PDF.                             *)
(***************************************************************************)
\* The store "no store": the value None of VECTORSTORE and of unset locals.
None == [id |-> 0, docs |-> <<>>]

\* vectordb._validate_pdf_path: the error it raises, or "none".
ValidatePdfPath(suffix, file) ==
    IF ~file.exists THEN "FileNotFoundError"
    ELSE IF Lower(suffix) # <<".", "p", "d", "f">> THEN "ValueError:NotPdf"
    ELSE "none"

\* vectordb.load_pdf_text, lines 43-45: the joined, stripped page texts.
PdfText(file) ==
    Strip(Join(<<"\n">>, [i \in 1..Len(file.pages) |-> Strip(file.pages[i])]))

\* vectordb.load_pdf_text: [err, text].
LoadPdfText(suffix, file) ==
    IF ValidatePdfPath(suffix, file) # "none"
    THEN [err |-> ValidatePdfPath(suffix, file), text |-> <<>>]
    ELSE IF file.pages = <<>>
    THEN [err |-> "ValueError:NoPages", text |-> <<>>]
    ELSE IF PdfText(file) = <<>>
    THEN [err |-> "ValueError:NoText", text |-> <<>>]
    ELSE [err |-> "none", text |-> PdfText(file)]

\* RecursiveCharacterTextSplitter.split_text (external): some cutting of the
\* text into chunks, or no chunk at all.  The cuttings drawn are the whole
\* text as one chunk and one chunk per character.
SplitText(text) ==
    {<<>>, <<text>>, [i \in 1..Len(text) |-> <<text[i]>>]}

\* vectordb.chunk_text on one result of the splitter: the error, or "none".
ChunkText(text, chunks) ==
    IF text = <<>> THEN "ValueError:EmptyText"
    ELSE IF chunks = <<>> THEN "ValueError:NoChunks"
    ELSE "none"

\* vectordb.create_vector_db on one result of the splitter: [err, docs].
CreateVectorDb(suffix, file, chunks) ==
    IF LoadPdfText(suffix, file).err # "none"
    THEN [err |-> LoadPdfText(suffix, file).err, docs |-> <<>>]
    ELSE IF ChunkText(LoadPdfText(suffix, file).text, chunks) # "none"
    THEN [err |-> ChunkText(LoadPdfText(suffix, file).text, chunks), docs |-> <<>>]
    ELSE [err |-> "none", docs |-> chunks]

(***************************************************************************)
(* vectordb.py / agents.py: querying.                                      *)
(***************************************************************************)
Min(a, b) == IF a < b THEN a ELSE b

\* FAISS.similarity_search(query, k) (external): up to k distinct documents
\* of the index, in some rank order.
Rankings(n, k) ==
    {r \in [1..Min(n, k) -> 1..n] : \A i, j \in 1..Min(n, k) : r[i] = r[j] => i = j}

\* str(n) for a natural number.
RECURSIVE IntToStr(_)
IntToStr(n) ==
    IF n < 10
    THEN <<CASE n = 0 -> "0" [] n = 1 -> "1" [] n = 2 -> "2" [] n = 3 -> "3"
             [] n = 4 -> "4" [] n = 5 -> "5" [] n = 6 -> "6" [] n = 7 -> "7"
             [] n = 8 -> "8" [] OTHER -> "9">>
    ELSE IntToStr(n \div 10) \o IntToStr(n % 10)

\* agents.py line 40: f"[Passage {idx}] {text.strip()}"
PassageLine(idx, text) ==
    <<"[", "P", "a", "s", "s", "a", "g", "e", " ">> \o IntToStr(idx)
        \o <<"]", " ">> \o Strip(text)

\* agents.policy_lookup, lines 36-42, on the passages the query returned.
FormatPassages(passages) ==
    IF passages = <<>> THEN NO_MATCH
    ELSE Join(<<"\n", "\n">>,
              [i \in 1..Len(passages) |-> PassageLine(i, passages[i])])

(***************************************************************************)
(* State.                                                                  *)
(***************************************************************************)
VARIABLES
    pdfFile,      \* the policy PDF on disk: [exists, pages]
    dirExists,    \* whether the index directory exists
    diskIndex,    \* what the index directory holds: [state, docs, by]
    VECTORSTORE,  \* per process, the module global of vectordb.py
    procOf,       \* the process each thread runs in
    th,           \* per thread, its position and locals
    buildCount,   \* call counter on the build step (FAISS.from_texts)
    saveCount,    \* completed FAISS.save_local calls
    nextId,       \* identity of the next store object created
    input,        \* _clean_query check: the string drawn
    cleaned,      \* _clean_query check: _clean_query(input)
    recleaned,    \* _clean_query check: _clean_query(_clean_query(input))
    stage         \* _clean_query check: how many times it was applied

vars == <<pdfFile, dirExists, diskIndex, VECTORSTORE, procOf, th, buildCount,
          saveCount, nextId, input, cleaned, recleaned, stage>>

envVars == <<pdfFile, dirExists, diskIndex>>
countVars == <<buildCount, saveCount, nextId>>
cleanVars == <<input, cleaned, recleaned, stage>>

Threads == {1, 2}
Procs == {1, 2}

(***************************************************************************)
(* The inputs drawn.                                                       *)
(***************************************************************************)
\* The PDF files the path may name: absent, no page, pages without text,
\* and two files with text.
PdfFiles ==
    { [exists |-> FALSE, pages |-> <<>>],
      [exists |-> TRUE, pages |-> <<>>],
      [exists |-> TRUE, pages |-> << <<" ">>, <<>> >>],
      [exists |-> TRUE, pages |-> << <<" ", "a", " ">>, <<"b", "c">> >>],
      [exists |-> TRUE, pages |-> << <<"d">> >>] }

\* The suffix of the pdf_path argument of init_vectorstore.
Suffixes == { DefaultSuffix, <<".", "P", "D", "F">>, <<".", "t", "x", "t">> }

\* The query argument of query_vector_db and policy_lookup.
Queries == { <<>>, <<"\t", "\n">>, <<"a">>, <<" ", "b">> }

\* The k argument of query_vector_db.
Ks == { 1, LookupK, DefaultK }

\* The question argument of answer_question and run_summary_agent.
Questions == { <<"A", " ", "b", "?">>, <<" ">> }

\* The passages argument of run_summary_agent.
PassageArgs ==
    { NO_MATCH, <<" ">> \o NO_MATCH \o <<"\n">>, <<"\t">> \o NO_MATCH,
      NO_MATCH \o <<"!">>, <<"N", "O", " ", "M", "A", "T", "C", "H">>,
      <<"n", "o", "_", "m", "a", "t", "c", "h">>, <<" ">>,
      PassageLine(1, NO_MATCH) }

\* The texts the language model may answer with (external).
Responses == { NO_MATCH, <<" ", "o", "k", "\n">> }

\* An index directory left by an earlier run or another tool.
ForeignDocs == { <<>>, << <<"d", " ">> >> }

NoIndex == [state |-> "none", docs |-> <<>>, by |-> 0]

IdleThread ==
    [pc |-> "idle", entry |-> "none", suffix |-> DefaultSuffix, query |-> <<>>,
     k |-> 0, store |-> None, ret |-> None, passages |-> <<>>, out |-> <<>>,
     err |-> "none", question |-> <<>>, cleaned |-> <<>>, tools |-> 0,
     toolOut |-> <<>>, nRetr |-> 0, nSum |-> 0, sumQ |-> <<>>, sumP |-> <<>>,
     resp |-> <<>>, viaBuild |-> FALSE, llm |-> 0, sumLlm |-> 0,
     retrOut |-> <<>>]

InitLifecycle ==
    /\ pdfFile \in PdfFiles
    /\ \/ dirExists = FALSE /\ diskIndex = NoIndex
       \/ /\ dirExists = TRUE
          /\ diskIndex \in {[state |-> "ok", docs |-> d, by |-> 0] : d \in ForeignDocs}
    /\ VECTORSTORE = [p \in Procs |-> None]
    /\ th = [t \in Threads |-> IdleThread]
    /\ buildCount = 0
    /\ saveCount = 0
    /\ nextId = 1

InitNoClean ==
    /\ input = <<>>
    /\ cleaned = <<>>
    /\ recleaned = <<>>
    /\ stage = 0

\* One process, whose calls are made one after the other.
Init ==
    /\ InitLifecycle
    /\ InitNoClean
    /\ procOf = [t \in Threads |-> 1]

\* Two threads, of one process or of two.
InitConc ==
    /\ InitLifecycle
    /\ InitNoClean
    /\ procOf \in {[t \in Threads |-> 1], [t \in Threads |-> t]}

(***************************************************************************)
(* Steps of a thread.                                                      *)
(***************************************************************************)
Upd(t, r) == th' = [th EXCEPT ![t] = r]

\* An exception raised in thread record r: it propagates to the caller of
\* the entry point, except inside the retrieval agent's tool call, where the
\* agent framework (external) sees it first.
Raised(r, e) ==
    IF r.entry = "answer"
    THEN [r EXCEPT !.pc = "tool_error", !.err = e]
    ELSE [r EXCEPT !.pc = "done", !.err = e]

\* A top-level call starts in an idle thread.
Begin(t, r) ==
    /\ th[t].pc = "idle"
    /\ nextId <= MaxStores
    /\ Upd(t, r)
    /\ UNCHANGED <<envVars, VECTORSTORE, procOf, countVars, cleanVars>>

\* init_vectorstore(pdf_path) is called.
StartInit(t) ==
    \E sfx \in Suffixes :
        Begin(t, [IdleThread EXCEPT !.pc = "init_exists", !.entry = "init",
                                    !.suffix = sfx])

\* get_vectorstore() is called.
StartGet(t) ==
    Begin(t, [IdleThread EXCEPT !.pc = "get_check", !.entry = "get"])

\* query_vector_db(query, k) is called.
StartQuery(t) ==
    \E q \in Queries, kk \in Ks :
        Begin(t, [IdleThread EXCEPT !.pc = "query_check", !.entry = "query",
                                    !.query = q, !.k = kk])

\* Mutant of InitExists: the directory is not looked at, the build branch is
\* always taken.
InitExists_AlwaysBuild(t) ==
    /\ th[t].pc = "init_exists"
    /\ Upd(t, [th[t] EXCEPT !.pc = "create"])
    /\ UNCHANGED <<envVars, VECTORSTORE, procOf, countVars, cleanVars>>

\* Mutant of InitExists: the load branch is taken only when the directory
\* holds a complete index.
InitExists_ChecksIndex(t) ==
    /\ th[t].pc = "init_exists"
    /\ Upd(t, [th[t] EXCEPT !.pc = IF dirExists /\ diskIndex.state = "ok"
                                   THEN "load_exists" ELSE "create"])
    /\ UNCHANGED <<envVars, VECTORSTORE, procOf, countVars, cleanVars>>

\* vectordb.py line 124: index_path.exists() selects the branch.
InitExists(t) ==
    /\ th[t].pc = "init_exists"
    /\ Upd(t, [th[t] EXCEPT !.pc = IF dirExists THEN "load_exists" ELSE "create"])
    /\ UNCHANGED <<envVars, VECTORSTORE, procOf, countVars, cleanVars>>

\* vectordb.py lines 98-99: load_vector_db checks the directory.
LoadExists(t) ==
    /\ th[t].pc = "load_exists"
    /\ Upd(t, IF dirExists THEN [th[t] EXCEPT !.pc = "load_local"]
              ELSE Raised(th[t], "FileNotFoundError"))
    /\ UNCHANGED <<envVars, VECTORSTORE, procOf, countVars, cleanVars>>

\* vectordb.py lines 101-106: FAISS.load_local reads the directory; it
\* raises on a missing or half-written index.
LoadLocal(t) ==
    /\ th[t].pc = "load_local"
    /\ IF diskIndex.state = "ok"
       THEN /\ Upd(t, [th[t] EXCEPT !.pc = "init_assign",
                          !.store = [id |-> nextId, docs |-> diskIndex.docs]])
            /\ nextId' = nextId + 1
       ELSE /\ Upd(t, Raised(th[t], "LoadError"))
            /\ nextId' = nextId
    /\ UNCHANGED <<envVars, VECTORSTORE, procOf, buildCount, saveCount, cleanVars>>

\* Mutant of Create: the index directory is made before the build is tried.
Create_MkdirFirst(t) ==
    /\ th[t].pc = "create"
    /\ dirExists' = TRUE
    /\ \E chunks \in SplitText(LoadPdfText(th[t].suffix, pdfFile).text) :
          LET res == CreateVectorDb(th[t].suffix, pdfFile, chunks) IN
          IF res.err # "none"
          THEN /\ Upd(t, Raised(th[t], res.err))
               /\ UNCHANGED <<buildCount, nextId>>
          ELSE /\ Upd(t, [th[t] EXCEPT !.pc = "save_mkdir", !.viaBuild = TRUE,
                             !.store = [id |-> nextId, docs |-> res.docs]])
               /\ buildCount' = buildCount + 1
               /\ nextId' = nextId + 1
    /\ UNCHANGED <<pdfFile, diskIndex, VECTORSTORE, procOf, saveCount, cleanVars>>

\* vectordb.py lines 127-132: create_vector_db reads the PDF, chunks it and
\* builds the store in memory.
Create(t) ==
    /\ th[t].pc = "create"
    /\ \E chunks \in SplitText(LoadPdfText(th[t].suffix, pdfFile).text) :
          LET res == CreateVectorDb(th[t].suffix, pdfFile, chunks) IN
          IF res.err # "none"
          THEN /\ Upd(t, Raised(th[t], res.err))
               /\ UNCHANGED <<buildCount, nextId>>
          ELSE /\ Upd(t, [th[t] EXCEPT !.pc = "save_mkdir", !.viaBuild = TRUE,
                             !.store = [id |-> nextId, docs |-> res.docs]])
               /\ buildCount' = buildCount + 1
               /\ nextId' = nextId + 1
    /\ UNCHANGED <<envVars, VECTORSTORE, procOf, saveCount, cleanVars>>

\* Mutant of SaveMkdir: mkdir without exist_ok raises on an existing
\* directory.
SaveMkdir_NotExistOk(t) ==
    /\ th[t].pc = "save_mkdir"
    /\ dirExists' = TRUE
    /\ Upd(t, IF dirExists THEN Raised(th[t], "FileExistsError")
              ELSE [th[t] EXCEPT !.pc = "save_begin"])
    /\ UNCHANGED <<pdfFile, diskIndex, VECTORSTORE, procOf, countVars, cleanVars>>

\* vectordb.py line 88: index_path.mkdir(parents=True, exist_ok=True).
SaveMkdir(t) ==
    /\ th[t].pc = "save_mkdir"
    /\ dirExists' = TRUE
    /\ Upd(t, [th[t] EXCEPT !.pc = "save_begin"])
    /\ UNCHANGED <<pdfFile, diskIndex, VECTORSTORE, procOf, countVars,
                   cleanVars>>

\* vectordb.py line 89: save_local starts writing the index files in place.
SaveBegin(t) ==
    /\ th[t].pc = "save_begin"
    /\ diskIndex' = [state |-> "partial", docs |-> <<>>, by |-> th[t].store.id]
    /\ Upd(t, [th[t] EXCEPT !.pc = "save_end"])
    /\ UNCHANGED <<pdfFile, dirExists, VECTORSTORE, procOf, countVars,
                   cleanVars>>

\* vectordb.py line 89: save_local has written the index files.
SaveEnd(t) ==
    /\ th[t].pc = "save_end"
    /\ diskIndex' = [state |-> "ok", docs |-> th[t].store.docs, by |-> th[t].store.id]
    /\ saveCount' = saveCount + 1
    /\ Upd(t, [th[t] EXCEPT !.pc = "init_assign"])
    /\ UNCHANGED <<pdfFile, dirExists, VECTORSTORE, procOf, buildCount, nextId,
                   cleanVars>>

\* vectordb.py lines 125 and 134: VECTORSTORE = <the loaded or built store>.
InitAssign(t) ==
    /\ th[t].pc = "init_assign"
    /\ VECTORSTORE' = [VECTORSTORE EXCEPT ![procOf[t]] = th[t].store]
    /\ Upd(t, [th[t] EXCEPT !.pc = "init_return"])
    /\ UNCHANGED <<envVars, procOf, countVars, cleanVars>>

\* vectordb.py line 136: return VECTORSTORE.
InitReturn(t) ==
    /\ th[t].pc = "init_return"
    /\ Upd(t, [th[t] EXCEPT !.ret = VECTORSTORE[procOf[t]],
                  !.pc = IF th[t].entry = "init" THEN "done" ELSE "get_assign"])
    /\ UNCHANGED <<envVars, VECTORSTORE, procOf, countVars, cleanVars>>

\* Mutant of GetCheck: the handle is initialised on every access.
GetCheck_AlwaysInit(t) ==
    /\ th[t].pc = "get_check"
    /\ Upd(t, [th[t] EXCEPT !.pc = "init_exists", !.suffix = DefaultSuffix])
    /\ UNCHANGED <<envVars, VECTORSTORE, procOf, countVars, cleanVars>>

\* vectordb.py line 144: if VECTORSTORE is None.
GetCheck(t) ==
    /\ th[t].pc = "get_check"
    /\ Upd(t, IF VECTORSTORE[procOf[t]] = None
              THEN [th[t] EXCEPT !.pc = "init_exists", !.suffix = DefaultSuffix]
              ELSE [th[t] EXCEPT !.pc = "get_return"])
    /\ UNCHANGED <<envVars, VECTORSTORE, procOf, countVars, cleanVars>>

\* vectordb.py line 145: VECTORSTORE = init_vectorstore().
GetAssign(t) ==
    /\ th[t].pc = "get_assign"
    /\ VECTORSTORE' = [VECTORSTORE EXCEPT ![procOf[t]] = th[t].ret]
    /\ Upd(t, [th[t] EXCEPT !.pc = "get_return"])
    /\ UNCHANGED <<envVars, procOf, countVars, cleanVars>>

\* vectordb.py line 146: return VECTORSTORE.
GetReturn(t) ==
    /\ th[t].pc = "get_return"
    /\ Upd(t, [th[t] EXCEPT !.ret = VECTORSTORE[procOf[t]],
                  !.pc = IF th[t].entry = "get" THEN "done" ELSE "search"])
    /\ UNCHANGED <<envVars, VECTORSTORE, procOf, countVars, cleanVars>>

\* Mutant of QueryCheck: the query is compared with "" without strip().
QueryCheck_NoStrip(t) ==
    /\ th[t].pc = "query_check"
    /\ Upd(t, IF th[t].query = <<>>
              THEN Raised(th[t], "ValueError:EmptyQuery")
              ELSE [th[t] EXCEPT !.pc = "get_check"])
    /\ UNCHANGED <<envVars, VECTORSTORE, procOf, countVars, cleanVars>>

\* vectordb.py lines 154-155: the blank-query check.
QueryCheck(t) ==
    /\ th[t].pc = "query_check"
    /\ Upd(t, IF Strip(th[t].query) = <<>>
              THEN Raised(th[t], "ValueError:EmptyQuery")
              ELSE [th[t] EXCEPT !.pc = "get_check"])
    /\ UNCHANGED <<envVars, VECTORSTORE, procOf, countVars, cleanVars>>

\* vectordb.py lines 158-159: similarity_search and the passages' texts.
Search(t) ==
    /\ th[t].pc = "search"
    /\ \E r \in Rankings(Len(th[t].ret.docs), th[t].k) :
          Upd(t, [th[t] EXCEPT
                     !.passages = [i \in 1..Len(r) |-> th[t].ret.docs[r[i]]],
                     !.pc = IF th[t].entry = "query" THEN "done" ELSE "format"])
    /\ UNCHANGED <<envVars, VECTORSTORE, procOf, countVars, cleanVars>>

\* The caller takes the result (or the exception) of a finished call.
Return(t) ==
    /\ th[t].pc = "done"
    /\ Upd(t, IdleThread)
    /\ UNCHANGED <<envVars, VECTORSTORE, procOf, countVars, cleanVars>>

(***************************************************************************)
(* The environment.                                                        *)
(***************************************************************************)
\* The source PDF is replaced, emptied or removed.
ChangePdf ==
    /\ \E f \in PdfFiles \ {pdfFile} : pdfFile' = f
    /\ UNCHANGED <<dirExists, diskIndex, VECTORSTORE, procOf, th, countVars,
                   cleanVars>>

\* A process ends between two calls and a new one starts: its globals are
\* fresh, the disk is as it was left.
ProcessExit(p) ==
    /\ VECTORSTORE[p] # None
    /\ \A t \in Threads : procOf[t] = p => th[t].pc = "idle"
    /\ VECTORSTORE' = [VECTORSTORE EXCEPT ![p] = None]
    /\ UNCHANGED <<envVars, procOf, th, countVars, cleanVars>>

\* A process crashes at some point of a call and a new one starts.
Crash(p) ==
    /\ \E t \in Threads : procOf[t] = p /\ th[t].pc \notin {"idle", "done"}
    /\ VECTORSTORE' = [VECTORSTORE EXCEPT ![p] = None]
    /\ th' = [t \in Threads |-> IF procOf[t] = p THEN IdleThread ELSE th[t]]
    /\ UNCHANGED <<envVars, procOf, countVars, cleanVars>>

(***************************************************************************)
(* agents.py: the tool, the two agents and the orchestrator.               *)
(***************************************************************************)
\* The queries the retrieval agent's model may pass to the tool (external):
\* the full normalised question, as instructed, or something else.
ToolQueries(r) == { r.cleaned, <<>> }

\* The final message of the retrieval agent (external): the raw tool output,
\* as instructed, or something else.
FinalContents(r) == { r.toolOut, NO_MATCH, <<"o", "k">> }

\* policy_lookup(query) is called.
StartLookup(t) ==
    \E q \in Queries :
        Begin(t, [IdleThread EXCEPT !.pc = "lookup", !.entry = "lookup",
                                    !.query = q])

\* run_summary_agent(question, passages) is called.
StartSummary(t) ==
    \E q \in Questions, ps \in PassageArgs :
        Begin(t, [IdleThread EXCEPT !.pc = "summary", !.entry = "summary",
                                    !.sumQ = q, !.sumP = ps, !.nSum = 1])

\* answer_question(question) is called.
StartAnswer(t) ==
    \E q \in Questions :
        Begin(t, [IdleThread EXCEPT !.pc = "retrieval", !.entry = "answer",
                                    !.question = q])

\* Mutant of Lookup: k is left at the default of query_vector_db.
Lookup_DefaultK(t) ==
    /\ th[t].pc = "lookup"
    /\ Upd(t, [th[t] EXCEPT !.k = DefaultK, !.pc = "query_check"])
    /\ UNCHANGED <<envVars, VECTORSTORE, procOf, countVars, cleanVars>>

\* agents.py line 35: query_vector_db(query, k=3).
Lookup(t) ==
    /\ th[t].pc = "lookup"
    /\ Upd(t, [th[t] EXCEPT !.k = LookupK, !.pc = "query_check"])
    /\ UNCHANGED <<envVars, VECTORSTORE, procOf, countVars, cleanVars>>

\* agents.py lines 36-42: the tool's result.
Format(t) ==
    /\ th[t].pc = "format"
    /\ Upd(t, IF th[t].entry = "lookup"
              THEN [th[t] EXCEPT !.out = FormatPassages(th[t].passages),
                                 !.pc = "done"]
              ELSE [th[t] EXCEPT !.toolOut = FormatPassages(th[t].passages),
                                 !.query = <<>>, !.k = 0, !.store = None,
                                 !.ret = None, !.passages = <<>>,
                                 !.viaBuild = FALSE, !.pc = "agent"])
    /\ UNCHANGED <<envVars, VECTORSTORE, procOf, countVars, cleanVars>>

\* agents.py lines 152 and 77-78: answer_question calls run_retrieval_agent,
\* which normalises the question and invokes the agent.
Retrieval(t) ==
    /\ th[t].pc = "retrieval"
    /\ Upd(t, [th[t] EXCEPT !.cleaned = CleanQuery(th[t].question),
                            !.nRetr = th[t].nRetr + 1, !.pc = "agent"])
    /\ UNCHANGED <<envVars, VECTORSTORE, procOf, countVars, cleanVars>>

\* agents.py lines 50-60 and 78: one turn of the agent's model (external): it
\* asks for a tool call or gives its final message.
AgentTurn(t) ==
    /\ th[t].pc = "agent"
    /\ \/ /\ th[t].tools < MaxToolCalls
          /\ \E q \in ToolQueries(th[t]) :
                Upd(t, [th[t] EXCEPT !.query = q, !.tools = th[t].tools + 1,
                                     !.llm = th[t].llm + 1, !.pc = "lookup"])
       \/ \E c \in FinalContents(th[t]) :
             Upd(t, [th[t] EXCEPT !.retrOut = c, !.llm = th[t].llm + 1,
                                  !.pc = "retrieval_return"])
    /\ UNCHANGED <<envVars, VECTORSTORE, procOf, countVars, cleanVars>>

\* An exception in the tool reaches the agent framework (external): it lets
\* the exception propagate, or hands it to the model as the tool's result.
ToolError(t) ==
    /\ th[t].pc = "tool_error"
    /\ \/ Upd(t, [th[t] EXCEPT !.pc = "done"])
       \/ Upd(t, [th[t] EXCEPT !.err = "none", !.pc = "agent",
                               !.query = <<>>, !.k = 0, !.store = None,
                               !.ret = None, !.viaBuild = FALSE,
                               !.toolOut = <<"E", "r", "r", "o", "r">>])
    /\ UNCHANGED <<envVars, VECTORSTORE, procOf, countVars, cleanVars>>

\* Mutant of RetrievalReturn: the normalised question is passed on.
RetrievalReturn_PassesCleaned(t) ==
    /\ th[t].pc = "retrieval_return"
    /\ Upd(t, [th[t] EXCEPT !.sumQ = th[t].cleaned, !.sumP = th[t].retrOut,
                            !.nSum = th[t].nSum + 1, !.pc = "summary"])
    /\ UNCHANGED <<envVars, VECTORSTORE, procOf, countVars, cleanVars>>

\* agents.py lines 86-87 and 152-154: run_retrieval_agent returns the last
\* message's content and answer_question calls run_summary_agent with the
\* question and it.
RetrievalReturn(t) ==
    /\ th[t].pc = "retrieval_return"
    /\ Upd(t, [th[t] EXCEPT !.sumQ = th[t].question, !.sumP = th[t].retrOut,
                            !.nSum = th[t].nSum + 1, !.pc = "summary"])
    /\ UNCHANGED <<envVars, VECTORSTORE, procOf, countVars, cleanVars>>

\* Mutant of Summary: passages is compared with the sentinel without
\* strip().
Summary_NoStrip(t) ==
    /\ th[t].pc = "summary"
    /\ IF th[t].sumP = NO_MATCH
       THEN Upd(t, [th[t] EXCEPT !.out = Apology, !.pc = "done"])
       ELSE \E resp \in Responses :
               Upd(t, [th[t] EXCEPT !.resp = resp, !.out = resp,
                                    !.sumLlm = th[t].sumLlm + 1, !.pc = "done"])
    /\ UNCHANGED <<envVars, VECTORSTORE, procOf, countVars, cleanVars>>

\* agents.py lines 127-135: run_summary_agent.
Summary(t) ==
    /\ th[t].pc = "summary"
    /\ IF Strip(th[t].sumP) = NO_MATCH
       THEN Upd(t, [th[t] EXCEPT !.out = Apology, !.pc = "done"])
       ELSE \E resp \in Responses :
               Upd(t, [th[t] EXCEPT !.resp = resp, !.out = resp,
                                    !.sumLlm = th[t].sumLlm + 1, !.pc = "done"])
    /\ UNCHANGED <<envVars, VECTORSTORE, procOf, countVars, cleanVars>>

\* The steps of query_vector_db and of agents.py in one thread.
PipelineStep(t) ==
    \/ QueryCheck(t) \/ Search(t) \/ Lookup(t) \/ Format(t)
    \/ Retrieval(t) \/ AgentTurn(t) \/ ToolError(t) \/ RetrievalReturn(t)
    \/ Summary(t)

\* The steps of init_vectorstore and get_vectorstore in one thread.
InitStep(t) ==
    \/ InitExists(t) \/ LoadExists(t) \/ LoadLocal(t) \/ Create(t)
    \/ SaveMkdir(t) \/ SaveBegin(t) \/ SaveEnd(t)
    \/ InitAssign(t) \/ InitReturn(t)
    \/ GetCheck(t) \/ GetAssign(t) \/ GetReturn(t)
    \/ Return(t)

\* One thread of one process calls the vector-store interface, one call
\* after the other.
Next ==
    \/ StartInit(1) \/ StartGet(1) \/ StartQuery(1)
    \/ InitStep(1) \/ QueryCheck(1) \/ Search(1)
    \/ ChangePdf
    \/ ProcessExit(1)

Spec == Init /\ [][Next]_vars

\* The same, with crashes.
NextCrash ==
    \/ StartInit(1) \/ StartGet(1) \/ StartQuery(1)
    \/ InitStep(1) \/ QueryCheck(1) \/ Search(1)
    \/ ChangePdf
    \/ ProcessExit(1)
    \/ Crash(1)

SpecCrash == Init /\ [][NextCrash]_vars

\* One thread of one process calls the tool, the summary agent and the
\* orchestrator, one call after the other.
NextAgents ==
    \/ StartLookup(1) \/ StartSummary(1) \/ StartAnswer(1)
    \/ InitStep(1) \/ PipelineStep(1)

SpecAgents == Init /\ [][NextAgents]_vars

\* Two threads initialise the store concurrently.
NextConc ==
    \/ \E t \in Threads : StartInit(t) \/ StartGet(t) \/ InitStep(t)
    \/ \E p \in Procs : ProcessExit(p)

SpecConc == InitConc /\ [][NextConc]_vars

(***************************************************************************)
(* _clean_query on its own: every string up to MaxLen characters.          *)
(***************************************************************************)
CleanChars == {"A", "a", "1", "_", "!", " ", "\t"}

RECURSIVE StringsUpTo(_)
StringsUpTo(n) ==
    IF n = 0 THEN {<<>>}
    ELSE StringsUpTo(n - 1)
         \cup {Append(s, c) : s \in {x \in StringsUpTo(n - 1) : Len(x) = n - 1},
                              c \in CleanChars}

InitClean ==
    /\ input \in StringsUpTo(MaxLen)
    /\ cleaned = <<>>
    /\ recleaned = <<>>
    /\ stage = 0
    /\ pdfFile = [exists |-> FALSE, pages |-> <<>>]
    /\ dirExists = FALSE
    /\ diskIndex = NoIndex
    /\ VECTORSTORE = [p \in Procs |-> None]
    /\ procOf = [t \in Threads |-> 1]
    /\ th = [t \in Threads |-> IdleThread]
    /\ buildCount = 0
    /\ saveCount = 0
    /\ nextId = 1

\* _clean_query(input)
ApplyClean ==
    /\ stage = 0
    /\ cleaned' = CleanQuery(input)
    /\ stage' = 1
    /\ UNCHANGED <<input, recleaned, envVars, VECTORSTORE, procOf, th, countVars>>

\* _clean_query(_clean_query(input))
ApplyCleanAgain ==
    /\ stage = 1
    /\ recleaned' = CleanQuery(cleaned)
    /\ stage' = 2
    /\ UNCHANGED <<input, cleaned, envVars, VECTORSTORE, procOf, th, countVars>>

NextClean == ApplyClean \/ ApplyCleanAgain

SpecClean == InitClean /\ [][NextClean]_vars

(***************************************************************************)
(* Helpers of the properties, written without the operators of the model.  *)
(***************************************************************************)
\* Uppercase letters.
IsUpper(c) == c \in {"A", "B", "P", "D", "F"}

\* Punctuation characters (Python's string.punctuation, Unicode categories
\* P*): the underscore is connector punctuation.
IsPunct(c) == c \in {"!", "?", "-", "_", "[", "]", "."}

\* s is empty or holds whitespace only.
Blank(s) == \A i \in 1..Len(s) : IsSpace(s[i])

\* x is s without its leading and trailing whitespace.
IsTrimOf(x, s) ==
    /\ x = <<>> \/ (~IsSpace(x[1]) /\ ~IsSpace(x[Len(x)]))
    /\ \E a \in 0..Len(s) :
          /\ a + Len(x) <= Len(s)
          /\ SubSeq(s, a + 1, a + Len(x)) = x
          /\ \A i \in 1..Len(s) : (i <= a \/ i > a + Len(x)) => IsSpace(s[i])

\* The pieces of s between the separators "\n\n".
RECURSIVE Blocks(_)
Blocks(s) ==
    LET cuts == {i \in 1..(Len(s) - 1) : s[i] = "\n" /\ s[i + 1] = "\n"} IN
    IF cuts = {} THEN <<s>>
    ELSE LET c == CHOOSE i \in cuts : \A j \in cuts : i <= j IN
         <<SubSeq(s, 1, c - 1)>> \o Blocks(SubSeq(s, c + 2, Len(s)))

\* Block b is "[Passage <n>] " followed by the trimmed text.
IsPassageBlock(b, n, text) ==
    /\ Len(b) >= 12
    /\ SubSeq(b, 1, 9) = <<"[", "P", "a", "s", "s", "a", "g", "e", " ">>
    /\ b[10] = <<"1", "2", "3">>[n]
    /\ b[11] = "]"
    /\ b[12] = " "
    /\ IsTrimOf(SubSeq(b, 13, Len(b)), text)

\* The errors with which the build branch of init_vectorstore fails.
BuildErrors ==
    {"FileNotFoundError", "ValueError:NotPdf", "ValueError:NoPages",
     "ValueError:NoText", "ValueError:NoChunks"}

\* The PDF cannot be built from: missing, not named *.pdf, without pages or
\* without text.
PdfUnusable(suffix, file) ==
    \/ ~file.exists
    \/ suffix \notin {<<".", "p", "d", "f">>, <<".", "P", "D", "F">>}
    \/ file.pages = <<>>
    \/ \A i \in 1..Len(file.pages) : Blank(file.pages[i])

\* The index directory is there with a missing or half-written index, and
\* nobody is writing it.
Broken ==
    /\ dirExists
    /\ diskIndex.state # "ok"
    /\ \A t \in Threads : th[t].pc \notin {"save_begin", "save_end"}

(***************************************************************************)
(* C1.  Load-or-build with persistence (Spec).  A call that finds no index *)
(* directory and returns has built the index and left it, complete, in the *)
(* directory; the build branch is entered only while the directory is      *)
(* absent, no build happens once it exists, whatever became of the PDF,    *)
(* and at most one build succeeds in all.                                  *)
(***************************************************************************)
C1_LoadOrBuildOnce ==
    /\ [](/\ buildCount <= 1
          /\ \A t \in Threads :
                /\ th[t].pc = "create" => ~dirExists
                /\ (th[t].pc = "done" /\ th[t].err = "none" /\ th[t].viaBuild)
                      => /\ dirExists
                         /\ diskIndex = [state |-> "ok", docs |-> th[t].store.docs,
                                         by |-> th[t].store.id])
    /\ [][dirExists => dirExists' /\ buildCount' = buildCount]_vars

\* A later init_vectorstore call has loaded the index built by an earlier one,
\* after the PDF was removed.
C1_Witness ==
    /\ th[1].pc = "done" /\ th[1].entry = "init" /\ th[1].err = "none"
    /\ ~th[1].viaBuild
    /\ buildCount = 1 /\ saveCount = 1
    /\ th[1].store.docs = diskIndex.docs
    /\ ~pdfFile.exists

(***************************************************************************)
(* C2.  The handle is assigned once per process lifetime (Spec): as        *)
(* claimed, an initialised VECTORSTORE never changes until the process     *)
(* ends.                                                                   *)
(***************************************************************************)
C2_AssignedOnce ==
    [][\A p \in Procs :
          VECTORSTORE[p] # None
             => (VECTORSTORE'[p] = VECTORSTORE[p] \/ ProcessExit(p))]_vars

(***************************************************************************)
(* C2, amended.  Within a process lifetime an initialised VECTORSTORE      *)
(* never returns to None, and the only step that replaces it is the        *)
(* assignment of a directly called init_vectorstore; get_vectorstore and   *)
(* query_vector_db leave an initialised handle as it is.                   *)
(***************************************************************************)
C2_OnlyInitReassigns ==
    [][\A p \in Procs :
          (VECTORSTORE[p] # None /\ VECTORSTORE'[p] # VECTORSTORE[p])
             => \/ ProcessExit(p)
                \/ /\ VECTORSTORE'[p] # None
                   /\ \E t \in Threads :
                         /\ procOf[t] = p
                         /\ th[t].entry = "init"
                         /\ th[t].pc = "init_assign"
                         /\ VECTORSTORE'[p] = th[t].store]_vars

\* A directly called init_vectorstore is about to replace an initialised
\* handle by the store it has just loaded.
C2_Witness ==
    /\ th[1].entry = "init" /\ th[1].pc = "init_assign"
    /\ VECTORSTORE[1] # None
    /\ th[1].store # None /\ th[1].store # VECTORSTORE[1]

(***************************************************************************)
(* C3.  run_summary_agent (SpecAgents): when passages, trimmed, is the     *)
(* sentinel NO_MATCH the result is the fixed sentence and the summary      *)
(* chain is not invoked; otherwise the chain is invoked exactly once and   *)
(* its response is returned as it is.                                      *)
(***************************************************************************)
C3_SummaryOnSentinel ==
    \A t \in Threads :
       (th[t].pc = "done" /\ th[t].err = "none"
           /\ th[t].entry \in {"summary", "answer"})
          => IF IsTrimOf(NO_MATCH, th[t].sumP)
             THEN th[t].out = Apology /\ th[t].sumLlm = 0
             ELSE th[t].out = th[t].resp /\ th[t].sumLlm = 1

\* The sentinel, wrapped in whitespace, was answered without the model.
C3_Witness ==
    /\ th[1].pc = "done" /\ th[1].entry = "summary"
    /\ th[1].sumP = <<" ">> \o NO_MATCH \o <<"\n">>
    /\ th[1].out = Apology /\ th[1].sumLlm = 0

(***************************************************************************)
(* C4.  query_vector_db on a blank query (Spec): for every k it fails with *)
(* the empty-query ValueError before anything else: the call never gets    *)
(* past the check, holds no store, and while it is at the check nothing of *)
(* the handle, the index directory or the build and load counters changes. *)
(***************************************************************************)
C4_BlankQueryRejected ==
    /\ [](\A t \in Threads :
            (th[t].entry = "query" /\ Blank(th[t].query))
               => /\ th[t].pc \in {"query_check", "done"}
                  /\ th[t].pc = "done" => th[t].err = "ValueError:EmptyQuery"
                  /\ th[t].store = None /\ th[t].ret = None
                  /\ th[t].passages = <<>>)
    /\ [][\A t \in Threads :
            (th[t].entry = "query" /\ Blank(th[t].query) /\ th[t].pc = "query_check")
               => UNCHANGED <<VECTORSTORE, dirExists, diskIndex, countVars>>]_vars

\* A whitespace-only query was rejected with the handle still Uninitialized
\* and no index directory.
C4_Witness ==
    /\ th[1].pc = "done" /\ th[1].entry = "query"
    /\ th[1].query = <<"\t", "\n">> /\ th[1].k = DefaultK
    /\ th[1].err = "ValueError:EmptyQuery"
    /\ VECTORSTORE[1] = None /\ ~dirExists /\ nextId = 1

(***************************************************************************)
(* C5.  answer_question keeps no state across calls (SpecAgents): as       *)
(* claimed, while a call of answer_question runs, the state a later call   *)
(* can observe - the handle and the index directory - is left as it was.   *)
(***************************************************************************)
C5_NoStateKept ==
    [][\A t \in Threads :
          (th[t].entry = "answer" /\ th'[t].entry = "answer")
             => UNCHANGED <<VECTORSTORE, dirExists, diskIndex>>]_vars

(***************************************************************************)
(* C5, amended.  answer_question invokes the retrieval stage exactly once  *)
(* and, when that has returned, the summarization stage exactly once, with *)
(* the original question and the retrieval stage's output (when retrieval  *)
(* raises, the summarization stage is not invoked).  It keeps no state of  *)
(* its own, but the tool it reaches initialises the process-wide handle on *)
(* first use: a call changes VECTORSTORE and the index directory only      *)
(* while the handle is Uninitialized, and what it wrote stays.             *)
(***************************************************************************)
C5_AnswerSequence ==
    /\ [](\A t \in Threads :
            th[t].entry = "answer"
               => /\ th[t].pc = "retrieval" => th[t].nRetr = 0 /\ th[t].nSum = 0
                  /\ th[t].pc # "retrieval" => th[t].nRetr = 1
                  /\ (th[t].pc = "summary" \/ (th[t].pc = "done" /\ th[t].err = "none"))
                        => /\ th[t].nSum = 1
                           /\ th[t].sumQ = th[t].question
                           /\ th[t].sumP = th[t].retrOut
                  /\ (th[t].pc \notin {"summary", "done"}
                         \/ (th[t].pc = "done" /\ th[t].err # "none"))
                        => th[t].nSum = 0)
    /\ [][\A t \in Threads :
            (th[t].entry = "answer" /\ th'[t].entry = "answer")
               => /\ VECTORSTORE'[procOf[t]] # VECTORSTORE[procOf[t]]
                     => VECTORSTORE[procOf[t]] = None
                  /\ <<dirExists, diskIndex>>' # <<dirExists, diskIndex>>
                     => VECTORSTORE[procOf[t]] = None]_vars

\* An answer_question call has finished: both stages ran, the question was
\* passed on un-normalised, and the handle it initialised is still set.
C5_Witness ==
    /\ th[1].pc = "done" /\ th[1].entry = "answer" /\ th[1].err = "none"
    /\ th[1].nRetr = 1 /\ th[1].nSum = 1
    /\ th[1].sumQ = <<"A", " ", "b", "?">>
    /\ th[1].cleaned = <<"a", " ", "b">>
    /\ th[1].tools = 1
    /\ VECTORSTORE[1] # None /\ VECTORSTORE[1].id = 1

(***************************************************************************)
(* C6.  _clean_query (SpecClean): as claimed, applying it twice gives what *)
(* applying it once gives, and its output holds no uppercase letter, no    *)
(* punctuation character, no two consecutive spaces and no leading or      *)
(* trailing whitespace.                                                    *)
(***************************************************************************)
C6_CleanNormalized ==
    stage = 2
       => /\ recleaned = cleaned
          /\ \A i \in 1..Len(cleaned) :
                /\ ~IsUpper(cleaned[i])
                /\ ~IsPunct(cleaned[i])
                /\ i > 1 => ~(cleaned[i] = " " /\ cleaned[i - 1] = " ")
          /\ cleaned = <<>> \/ (~IsSpace(cleaned[1]) /\ ~IsSpace(cleaned[Len(cleaned)]))

(***************************************************************************)
(* C6, the part that holds of the code (SpecClean): idempotence, no        *)
(* uppercase letter, no two consecutive spaces and no leading or trailing  *)
(* whitespace; the only punctuation character left is the underscore.      *)
(***************************************************************************)
C6_CleanNormalizedButUnderscore ==
    stage = 2
       => /\ recleaned = cleaned
          /\ \A i \in 1..Len(cleaned) :
                /\ ~IsUpper(cleaned[i])
                /\ IsPunct(cleaned[i]) => cleaned[i] = "_"
                /\ i > 1 => ~(cleaned[i] = " " /\ cleaned[i - 1] = " ")
          /\ cleaned = <<>> \/ (~IsSpace(cleaned[1]) /\ ~IsSpace(cleaned[Len(cleaned)]))

(***************************************************************************)
(* C7.  No mutual exclusion around initialisation (SpecConc): every thread *)
(* that built a store goes on to persist it into the same directory,       *)
(* whether or not another thread has done so, so the completed persists    *)
(* and the persists under way always add up to the builds.                 *)
(***************************************************************************)
C7_EveryBuildPersists ==
    /\ buildCount = saveCount
          + Cardinality({t \in Threads :
                           th[t].pc \in {"save_mkdir", "save_begin", "save_end"}})
    /\ \A t \in Threads :
          (th[t].pc = "done" /\ th[t].viaBuild) => th[t].err = "none"

\* Two threads of one process both found the handle Uninitialized and the
\* directory absent, both built and both persisted; the directory holds the
\* index of one of them only.
C7_Witness ==
    /\ procOf[1] = procOf[2]
    /\ \A t \in Threads :
          /\ th[t].pc = "done" /\ th[t].entry = "get" /\ th[t].viaBuild
          /\ th[t].err = "none"
    /\ th[1].store.id # th[2].store.id
    /\ buildCount = 2 /\ saveCount = 2
    /\ diskIndex.state = "ok" /\ diskIndex.by = th[1].store.id

(***************************************************************************)
(* C8.  Persisting is not atomic (SpecCrash): once a crash has left the    *)
(* index directory with a missing or half-written index it stays so; no    *)
(* later call enters the build branch or builds, every init_vectorstore    *)
(* and get_vectorstore call fails in the load branch, and the handle stays *)
(* Uninitialized.                                                          *)
(***************************************************************************)
C8_BrokenIndexStays ==
    /\ [](Broken
            => /\ \A p \in Procs : VECTORSTORE[p] = None
               /\ \A t \in Threads :
                     /\ th[t].pc \notin {"create", "save_mkdir", "init_assign"}
                     /\ (th[t].pc = "done" /\ th[t].entry \in {"init", "get"})
                           => th[t].err = "LoadError")
    /\ [][Broken => Broken' /\ buildCount' = buildCount]_vars

\* After a crash during the write, an init_vectorstore call failed in the
\* load branch although the PDF is there to build from.
C8_Witness ==
    /\ Broken /\ diskIndex.state = "partial"
    /\ th[1].pc = "done" /\ th[1].entry = "init" /\ th[1].err = "LoadError"
    /\ th[1].suffix = DefaultSuffix
    /\ ~PdfUnusable(DefaultSuffix, pdfFile)
    /\ buildCount = 1

C10_FailedBuildChangesNothing ==
    /\ [](\A t \in Threads :
            (th[t].pc = "done" /\ th[t].err \in BuildErrors)
               => /\ ~dirExists /\ diskIndex = NoIndex
                  /\ VECTORSTORE[procOf[t]] = None
                  /\ th[t].store = None /\ th[t].ret = None)
    /\ [][\A t \in Threads :
            (th[t].pc = "create" /\ th'[t].pc # "create")
               => /\ PdfUnusable(th[t].suffix, pdfFile)
                     => th'[t].pc = "done" /\ th'[t].err \in BuildErrors
                  /\ th'[t].pc = "done"
                     => /\ th'[t].err \in BuildErrors
                        /\ UNCHANGED <<VECTORSTORE, dirExists, diskIndex, countVars>>]_vars

\* A query on an Uninitialized handle failed because the PDF has no text.
C10_Witness ==
    /\ th[1].pc = "done" /\ th[1].entry = "query"
    /\ th[1].err = "ValueError:NoText"
    /\ ~dirExists /\ VECTORSTORE[1] = None /\ buildCount = 0

=============================================================================
